---- MODULE Spec2Model ----
(***************************************************************************)
(* Model of src/signed.rs: the carrier UncheckedSigned, the proof values   *)
(* Signed, PartiallyMultisigned and Multisigned, and the operations that   *)
(* move a value from one stage to the next.                                *)
(*                                                                         *)
(* The traits KeyBox, PartialMultisignature, MultiKeychain, Signable and   *)
(* Index are only declared in signed.rs; their implementations are         *)
(* modelled after section 6 of the specification: a signature names the    *)
(* message and its signer, an aggregate maps a participant index to the    *)
(* signature absorbed for it.                                              *)
(***************************************************************************)
EXTENDS Integers, FiniteSets, Sequences, TLC

\* ---------------------------------------------------------------- bounds
NumNodes == 3
NumData == 2

Nodes == 0 .. (NumNodes - 1)
Data == 1 .. NumData

None == [tag |-> "None"]

\* ------------------------------------------------ external capabilities
\* Signable + Index payloads: the content and the self-reported signer.
Payloads == [data : Data, index : Nodes]

\* Signable::hash: the hash covers the content, not the self-reported index.
hash(t) == t.data

\* Index::index of a payload.
index(t) == t.index

\* The quorum thresholds a keychain instance may be configured with.
Quorums == {NumNodes - 1, NumNodes}

\* KeyBox / MultiKeychain instances: own participant index and threshold.
Keychains == [index : Nodes, quorum : Quorums]

\* Signature values.
Signatures == [msg : Data, signer : Nodes]

\* Index::index of a key box: the participant it signs for.
KeyBox_index(key_box) == key_box.index

\* KeyBox::sign
KeyBox_sign(key_box, msg) ==
  [msg |-> msg, signer |-> KeyBox_index(key_box)]

\* KeyBox::verify
KeyBox_verify(key_box, msg, sgn, i) == sgn.msg = msg /\ sgn.signer = i

\* MultiKeychain::from_signature
from_signature(keychain, sgn, i) ==
  [n \in Nodes |-> IF n = i THEN sgn ELSE None]

\* PartialMultisignature::add_signature
PartialMultisignature_add_signature(multisignature, sgn, i) ==
  [multisignature EXCEPT ![i] = sgn]

\* The participants an aggregate holds a contribution for.
Contributors(multisignature) == {n \in Nodes : multisignature[n] # None}

\* MultiKeychain::is_complete
is_complete(keychain, multisignature) ==
  Cardinality(Contributors(multisignature)) >= keychain.quorum

\* MultiKeychain::verify_partial
verify_partial(keychain, msg, multisignature) ==
  \A n \in Contributors(multisignature) :
     KeyBox_verify(keychain, msg, multisignature[n], n)

\* ------------------------------------------------------------- carriers
\* struct UncheckedSigned
UncheckedSigned(signable, signature) ==
  [signable |-> signable, signature |-> signature]

\* Carriers of a single signature that can arrive from the wire.
Carriers == {UncheckedSigned(t, s) : t \in Payloads, s \in Signatures}

\* Aggregates that can arrive from the wire: every contribution signs the
\* same message, under any participant index.
WireAggregates ==
  UNION {[Nodes -> {s \in Signatures : s.msg = d} \cup {None}] : d \in Data}

\* The payloads put under a multisignature. impl PartiallyMultisigned asks
\* only T: Signable, so no operation on an aggregate reads the payload's
\* index: one index stands for all of them, with any content.
MultiPayloads == {t \in Payloads : index(t) = 0}

\* Carriers of an aggregate that can arrive from the wire.
AggregateCarriers ==
  {UncheckedSigned(t, m) : t \in MultiPayloads, m \in WireAggregates}

Ok(v) == [ok |-> TRUE, val |-> v]
Err(e) == [ok |-> FALSE, err |-> e]

\* ------------------------------------------------------ UncheckedSigned
\* Mutant: the verification result is not consulted.
check_with_index_unverified(self, key_box, i) ==
  Ok([unchecked |-> self, key_box |-> key_box])

\* Mutant: verifies against the key box's own index, not the one given.
check_with_index_own_index(self, key_box, i) ==
  IF ~KeyBox_verify(key_box, hash(self.signable), self.signature,
                    KeyBox_index(key_box))
  THEN Err([unchecked |-> self])
  ELSE Ok([unchecked |-> self, key_box |-> key_box])

\* UncheckedSigned::check_with_index
check_with_index(self, key_box, i) ==
  IF ~KeyBox_verify(key_box, hash(self.signable), self.signature, i)
  THEN Err([unchecked |-> self])
  ELSE Ok([unchecked |-> self, key_box |-> key_box])

\* Mutant: the verification result is not consulted.
check_partial_unverified(self, keychain) ==
  Ok([unchecked |-> self, keychain |-> keychain])

\* Mutant: the negation of the verification result is missing.
check_partial_negated(self, keychain) ==
  IF verify_partial(keychain, hash(self.signable), self.signature)
  THEN Err([unchecked |-> self])
  ELSE Ok([unchecked |-> self, keychain |-> keychain])

\* UncheckedSigned::check_partial
check_partial(self, keychain) ==
  IF ~verify_partial(keychain, hash(self.signable), self.signature)
  THEN Err([unchecked |-> self])
  ELSE Ok([unchecked |-> self, keychain |-> keychain])

\* Mutant: the index is off by one.
check_next_index(self, key_box) ==
  LET i == (index(self.signable) + 1) % NumNodes
  IN  check_with_index(self, key_box, i)

\* Mutant: the index is the key box's own, not the payload's.
check_own_index(self, key_box) ==
  LET i == KeyBox_index(key_box)
  IN  check_with_index(self, key_box, i)

\* UncheckedSigned::check
check(self, key_box) ==
  LET i == index(self.signable)
  IN  check_with_index(self, key_box, i)

\* --------------------------------------------------------------- Signed
\* Signed::sign
Signed_sign(key_box, signable) ==
  LET signature == KeyBox_sign(key_box, hash(signable))
  IN  [unchecked |-> UncheckedSigned(signable, signature),
       key_box |-> key_box]

\* Mutant: the carrier is rebuilt with a signature made by the key box.
into_unchecked_resigning(self) ==
  UncheckedSigned(self.unchecked.signable,
                  KeyBox_sign(self.key_box, hash(self.unchecked.signable)))

\* Signed::into_unchecked
into_unchecked(self) == self.unchecked

\* Signed::as_signable
as_signable(self) == self.unchecked.signable

\* ------------------------------------------------- PartiallyMultisigned
\* Mutant: the signature is attributed to the payload's index.
PartiallyMultisigned_sign_payload_index(signable, keychain) ==
  LET signature == KeyBox_sign(keychain, hash(signable))
      multisignature == from_signature(keychain, signature, index(signable))
  IN  [unchecked |-> UncheckedSigned(signable, multisignature),
       keychain |-> keychain]

\* PartiallyMultisigned::sign
PartiallyMultisigned_sign(signable, keychain) ==
  LET signature == KeyBox_sign(keychain, hash(signable))
      multisignature ==
        from_signature(keychain, signature, KeyBox_index(keychain))
  IN  [unchecked |-> UncheckedSigned(signable, multisignature),
       keychain |-> keychain]

\* Mutant: the hash guard is missing.
add_signature_unguarded(self, signed, i) ==
  [self EXCEPT !.unchecked.signature =
     PartialMultisignature_add_signature(
        self.unchecked.signature, signed.unchecked.signature, i)]

\* Mutant: the aggregate is rebuilt from the new signature alone.
add_signature_replacing(self, signed, i) ==
  IF hash(self.unchecked.signable) # hash(as_signable(signed))
  THEN self
  ELSE [self EXCEPT !.unchecked.signature =
          from_signature(self.keychain, signed.unchecked.signature, i)]

\* Mutant: the signature is attributed to the index of the Signed's payload,
\* not to the index given.
add_signature_payload_index(self, signed, i) ==
  IF hash(self.unchecked.signable) # hash(as_signable(signed))
  THEN self
  ELSE [self EXCEPT !.unchecked.signature =
          PartialMultisignature_add_signature(
             self.unchecked.signature, signed.unchecked.signature,
             index(as_signable(signed)))]

\* Mutant: the payload of the Signed replaces the partial's payload.
add_signature_adopting(self, signed, i) ==
  IF hash(self.unchecked.signable) # hash(as_signable(signed))
  THEN self
  ELSE [self EXCEPT !.unchecked.signable = as_signable(signed),
                    !.unchecked.signature =
          PartialMultisignature_add_signature(
             self.unchecked.signature, signed.unchecked.signature, i)]

\* Mutant: the hash guard is inverted.
add_signature_inverted(self, signed, i) ==
  IF hash(self.unchecked.signable) = hash(as_signable(signed))
  THEN self
  ELSE [self EXCEPT !.unchecked.signature =
          PartialMultisignature_add_signature(
             self.unchecked.signature, signed.unchecked.signature, i)]

\* PartiallyMultisigned::add_signature
add_signature(self, signed, i) ==
  IF hash(self.unchecked.signable) # hash(as_signable(signed))
  THEN self
  ELSE [self EXCEPT !.unchecked.signature =
          PartialMultisignature_add_signature(
             self.unchecked.signature, signed.unchecked.signature, i)]

\* Mutant: the error hands back a partial bound to the keychain argument.
try_into_complete_rebinding(self, keychain) ==
  IF ~is_complete(keychain, self.unchecked.signature)
  THEN Err([partial |-> [self EXCEPT !.keychain = keychain]])
  ELSE Ok([unchecked |-> self.unchecked, keychain |-> self.keychain])

\* PartiallyMultisigned::_try_into_complete
try_into_complete(self, keychain) ==
  IF ~is_complete(keychain, self.unchecked.signature)
  THEN Err([partial |-> self])
  ELSE Ok([unchecked |-> self.unchecked, keychain |-> self.keychain])

\* struct Multisigned: both fields are pub, so a struct literal builds one.
Multisigned(unchecked, keychain) ==
  [unchecked |-> unchecked, keychain |-> keychain]

\* ---------------------------------------------------------------- state
\* Each behaviour follows one value through its stages: a carrier decoded
\* from the wire, or a value signed locally.
VARIABLES
  carrier,   \* the UncheckedSigned<T, Signature> in hand, or None
  pcarrier,  \* the UncheckedSigned<T, PartialMultisignature> in hand, or None
  signed,    \* the Signed value in hand, or None
  sigErr,    \* the SignatureError in hand, or None
  partial,   \* the PartiallyMultisigned being aggregated, or None
  multi,     \* the Multisigned value in hand, or None
  incErr,    \* the IncompleteMultisignatureError in hand, or None
  last       \* the last call: its name, its arguments and its outcome

vars == <<carrier, pcarrier, signed, sigErr, partial, multi, incErr, last>>

\* Nothing has been decoded, signed or checked yet.
Fresh ==
  /\ carrier = None
  /\ pcarrier = None
  /\ signed = None
  /\ sigErr = None
  /\ partial = None
  /\ multi = None
  /\ incErr = None

\* A carrier decoded from the wire (derive(Decode)) holds any payload with
\* any signature or aggregate; or nothing was received.
Init ==
  /\ \/ carrier \in Carriers /\ pcarrier = None
     \/ carrier = None /\ pcarrier \in AggregateCarriers \cup {None}
  /\ signed = None
  /\ sigErr = None
  /\ partial = None
  /\ multi = None
  /\ incErr = None
  /\ last = [op |-> "init"]

\* ------------------------------------------- single signatures: actions
\* Signed::sign(key_box, signable)
Sign ==
  /\ Fresh
  /\ \E key_box \in Keychains, t \in Payloads :
        /\ signed' = Signed_sign(key_box, t)
        /\ last' = [op |-> "sign", key_box |-> key_box]
  /\ UNCHANGED <<carrier, pcarrier, sigErr, partial, multi, incErr>>

\* signed.into_unchecked(): the Signed value is moved into its carrier.
IntoUnchecked ==
  /\ signed # None
  /\ carrier' = into_unchecked(signed)
  /\ signed' = None
  /\ last' = [op |-> "into_unchecked",
              signer |-> IF last.op = "sign" THEN last.key_box ELSE None,
              checked |-> IF last.op \in {"check", "check_with_index"}
                          THEN last.self ELSE None]
  /\ UNCHANGED <<pcarrier, sigErr, partial, multi, incErr>>

\* The outcome of a check of the carrier in hand, which the call consumes.
\* last.signer is the key box that signed the carrier, when the carrier
\* comes straight from Signed::sign(..).into_unchecked().
Checked(op, r, key_box, i) ==
  /\ carrier' = None
  /\ signed' = IF r.ok THEN r.val ELSE None
  /\ sigErr' = IF r.ok THEN None ELSE r.err
  /\ last' = [op |-> op, self |-> carrier, key_box |-> key_box,
              index |-> i, ok |-> r.ok,
              signer |-> IF last.op = "into_unchecked" THEN last.signer
                         ELSE None]
  /\ UNCHANGED <<pcarrier, partial, multi, incErr>>

\* carrier.check_with_index(key_box, index)
CheckWithIndex ==
  /\ carrier # None
  /\ \E key_box \in Keychains, i \in Nodes :
        Checked("check_with_index", check_with_index(carrier, key_box, i),
                key_box, i)

\* carrier.check(key_box)
Check ==
  /\ carrier # None
  /\ \E key_box \in Keychains :
        Checked("check", check(carrier, key_box), key_box,
                index(carrier.signable))

\* ---------------------------------------------- multisignatures: actions
\* PartiallyMultisigned::sign(signable, keychain)
PartialSign ==
  /\ Fresh
  /\ \E t \in MultiPayloads, keychain \in Keychains :
        /\ partial' = PartiallyMultisigned_sign(t, keychain)
        /\ last' = [op |-> "partial_sign", signable |-> t,
                    keychain |-> keychain]
  /\ UNCHANGED <<carrier, pcarrier, signed, sigErr, multi, incErr>>

\* pcarrier.check_partial(keychain): the call consumes the carrier.
CheckPartial ==
  /\ pcarrier # None
  /\ \E keychain \in Keychains :
        LET r == check_partial(pcarrier, keychain)
        IN  /\ partial' = IF r.ok THEN r.val ELSE None
            /\ sigErr' = IF r.ok THEN None ELSE r.err
            /\ last' = [op |-> "check_partial", self |-> pcarrier,
                        keychain |-> keychain, ok |-> r.ok]
  /\ pcarrier' = None
  /\ UNCHANGED <<carrier, signed, multi, incErr>>

\* The Signed value participant j holds after Signed::sign over its own
\* payload with content d, under a keychain of the aggregator's committee.
SignedBy(j, d) ==
  Signed_sign([index |-> j, quorum |-> partial.keychain.quorum],
              [data |-> d, index |-> j])

\* What is recorded of a call partial.add_signature(signed, index): whether
\* the hashes differed and, when they did not, the arguments of the call.
AddSignatureCall(self, s, i) ==
  IF hash(as_signable(s)) # hash(self.unchecked.signable)
  THEN [op |-> "add_signature", mismatch |-> TRUE]
  ELSE [op |-> "add_signature", mismatch |-> FALSE,
        signable |-> as_signable(s), signature |-> s.unchecked.signature,
        index |-> i]

\* The index arguments that give distinct calls: when the hashes differ the
\* call returns before it reads its index argument (lines 186-189), so one
\* index stands for all of them.
IndexArgs(self, s) ==
  IF hash(as_signable(s)) # hash(self.unchecked.signable)
  THEN {KeyBox_index(s.key_box)}
  ELSE Nodes

\* partial.add_signature(signed, index): the Signed value of any participant
\* over any content, and any index argument.
AddSignature ==
  /\ partial # None
  /\ \E j \in Nodes, d \in Data :
        LET s == SignedBy(j, d)
        IN  \E i \in IndexArgs(partial, s) :
              /\ partial' = add_signature(partial, s, i)
              /\ last' = AddSignatureCall(partial, s, i)
  /\ UNCHANGED <<carrier, pcarrier, signed, sigErr, multi, incErr>>

\* The call of add_signature that absorbs participant j's Signed over the
\* partial's own content, under j's index: one of the calls of AddSignature.
AbsorbFrom(j) ==
  /\ partial # None
  /\ LET s == SignedBy(j, hash(partial.unchecked.signable))
     IN  /\ partial' = add_signature(partial, s, j)
         /\ last' = AddSignatureCall(partial, s, j)
  /\ UNCHANGED <<carrier, pcarrier, signed, sigErr, multi, incErr>>

\* The outcome of partial._try_into_complete(keychain), which consumes the
\* partial.
Tries(keychain) ==
  LET r == try_into_complete(partial, keychain)
  IN  /\ multi' = IF r.ok THEN r.val ELSE None
      /\ incErr' = IF r.ok THEN None ELSE r.err
      /\ last' = [op |-> "try_into_complete",
                  quorum |-> keychain.quorum, ok |-> r.ok]
      /\ partial' = None
      /\ UNCHANGED <<carrier, pcarrier, signed, sigErr>>

\* partial._try_into_complete(keychain), with any keychain.
TryIntoComplete ==
  /\ partial # None
  /\ \E keychain \in Keychains : Tries(keychain)

\* The call of try_into_complete with the partial's own keychain: one of the
\* calls of TryIntoComplete.
TryOwn ==
  /\ partial # None
  /\ Tries(partial.keychain)

\* The caller takes the partial back out of the error (its field is pub).
Retry ==
  /\ incErr # None
  /\ partial' = incErr.partial
  /\ incErr' = None
  /\ last' = [op |-> "retry"]
  /\ UNCHANGED <<carrier, pcarrier, signed, sigErr, multi>>

\* multi.unchecked: the carrier a Multisigned exposes (its field is pub) is
\* moved out for transport or storage. last.promoted tells whether the
\* Multisigned came from try_into_complete.
TakeUnchecked ==
  /\ multi # None
  /\ pcarrier' = multi.unchecked
  /\ multi' = None
  /\ last' = [op |-> "take_unchecked",
              promoted |-> last.op = "try_into_complete"]
  /\ UNCHANGED <<carrier, signed, sigErr, partial, incErr>>

\* Multisigned { unchecked: pcarrier, keychain } written as a struct literal.
MultisignedLiteral ==
  /\ pcarrier # None
  /\ \E keychain \in Keychains : multi' = Multisigned(pcarrier, keychain)
  /\ pcarrier' = None
  /\ last' = [op |-> "literal"]
  /\ UNCHANGED <<carrier, signed, sigErr, partial, incErr>>

Next ==
  \/ Sign
  \/ IntoUnchecked
  \/ CheckWithIndex
  \/ Check
  \/ PartialSign
  \/ CheckPartial
  \/ AddSignature
  \/ TryIntoComplete
  \/ Retry
  \/ TakeUnchecked
  \/ MultisignedLiteral

Spec == Init /\ [][Next]_vars

\* ------------------------------------------------- the aggregating caller
\* A caller that aggregates towards a quorum certificate: it starts from
\* its own signature or from a received aggregate, absorbs the participants'
\* signatures over the payload under their own indices, retries
\* try_into_complete with the partial's keychain, and takes the partial back
\* out of an error.
Absorb == \E j \in Nodes : AbsorbFrom(j)

AggregatingInit == Init /\ carrier = None

AggregatingNext ==
  \/ PartialSign
  \/ CheckPartial
  \/ Absorb
  \/ TryOwn
  \/ Retry

\* The caller keeps going: every participant's signature keeps being
\* absorbed and the completeness check keeps being retried.
Aggregating ==
  /\ \A j \in Nodes : SF_vars(AbsorbFrom(j))
  /\ SF_vars(TryOwn)
  /\ WF_vars(Retry)

AggregatingSpec ==
  AggregatingInit /\ [][AggregatingNext]_vars /\ Aggregating

\* ================================================================ claims
\* The key box of participant j in the committee of key_box.
KeyOf(key_box, j) == [key_box EXCEPT !.index = j]

\* The last call was a check of a single signature.
SingleCheck == last.op \in {"check", "check_with_index"}

\* C1: in every reachable state of a PartiallyMultisigned value, the
\* aggregate it holds verifies as a partial multisignature over the hash of
\* its payload under its keychain.
C1_AggregateVerifies ==
  partial # None =>
    verify_partial(partial.keychain, hash(partial.unchecked.signable),
                   partial.unchecked.signature)

\* C2: every Multisigned value that try_into_complete returns satisfies the
\* completeness predicate of the keychain it holds.
C2_MultisignedComplete ==
  (multi # None /\ last.op = "try_into_complete") =>
    is_complete(multi.keychain, multi.unchecked.signature)

\* C3: a Signed, PartiallyMultisigned or Multisigned value exists only as
\* the result of a signing operation, a successful check or a successful
\* try_into_complete.
C3_OnlyCheckedConstruction ==
  /\ signed # None => last.op \in {"sign", "check", "check_with_index"}
  /\ partial # None =>
       last.op \in {"partial_sign", "check_partial", "add_signature", "retry"}
  /\ multi # None => last.op = "try_into_complete"

\* check(key_box) was called on the carrier that
\* Signed::sign(key_box, t).into_unchecked() returned, with the same key box.
RoundTrip ==
  /\ last.op = "check"
  /\ last.signer = last.key_box

\* C4 as stated: for any payload and key box,
\* Signed::sign(key_box, t).into_unchecked().check(key_box) returns Ok with
\* the same payload and signature.
C4_RoundTripAnyPayload ==
  RoundTrip => (last.ok /\ signed # None /\ signed.unchecked = last.self)

\* C4 as amended: the round trip succeeds, with the same payload and
\* signature, when the payload's own index is the key box's index.
C4_RoundTripOwnIndex ==
  (RoundTrip /\ index(last.self.signable) = KeyBox_index(last.key_box)) =>
    (last.ok /\ signed # None /\ signed.unchecked = last.self)

C4_Witness ==
  /\ RoundTrip
  /\ index(last.self.signable) = KeyBox_index(last.key_box)
  /\ signed # None

\* C5: every Signed value holds a payload and a signature that its key box
\* verifies for an index: the one given to check_with_index, the payload's
\* own for check, the key box's own for sign.
C5_SignedVerifies ==
  signed # None =>
    LET t == signed.unchecked.signable
        i == IF last.op = "sign" THEN KeyBox_index(signed.key_box)
             ELSE last.index
    IN  /\ last.op \in {"sign", "check", "check_with_index"}
        /\ last.op = "check" => i = index(t)
        /\ KeyBox_verify(signed.key_box, hash(t), signed.unchecked.signature, i)

C5_Witness ==
  /\ signed # None
  /\ last.op = "check_with_index"
  /\ last.index # index(signed.unchecked.signable)

\* C6: a carrier whose signature is not the valid signature of its payload
\* for the index checked is rejected by check and check_with_index, and the
\* error wraps the carrier that was passed in; so does check_partial when
\* verify_partial is false.
C6_TamperRejected ==
  /\ (SingleCheck
      /\ last.self.signature
           # KeyBox_sign(KeyOf(last.key_box, last.index),
                         hash(last.self.signable)))
       => (~last.ok /\ signed = None /\ sigErr = [unchecked |-> last.self])
  /\ (last.op = "check_partial"
      /\ ~verify_partial(last.keychain, hash(last.self.signable),
                         last.self.signature))
       => (~last.ok /\ partial = None /\ sigErr = [unchecked |-> last.self])

C6_Witness ==
  /\ last.op = "check_with_index"
  /\ last.self.signature.msg = hash(last.self.signable)
  /\ last.self.signature.signer # last.index
  /\ sigErr = [unchecked |-> last.self]

\* C7: a carrier signed by participant j over its payload is rejected by
\* check_with_index under any other index, and by check when the payload's
\* own index is not j.
C7_IndexSensitive ==
  SingleCheck =>
    \A j \in Nodes :
       (j # last.index
        /\ last.self.signature
             = KeyBox_sign(KeyOf(last.key_box, j), hash(last.self.signable)))
         => (~last.ok /\ signed = None /\ sigErr # None)

C7_Witness ==
  /\ last.op = "check"
  /\ last.self.signature
       = KeyBox_sign(last.key_box, hash(last.self.signable))
  /\ index(last.self.signable) # KeyBox_index(last.key_box)
  /\ sigErr # None

\* C8: add_signature with a Signed value whose payload hash differs from
\* the hash of the partial's payload leaves the whole PartiallyMultisigned
\* as it was and raises no error.
C8_HashGuard ==
  [][(last'.op = "add_signature" /\ last'.mismatch)
       => (partial' = partial /\ sigErr' = sigErr /\ incErr' = incErr)]_vars

C8_Witness ==
  /\ last.op = "add_signature"
  /\ last.mismatch
  /\ partial # None

\* C9: try_into_complete on a partial whose aggregate is not complete
\* returns the error wrapping the same payload, aggregate and keychain, and
\* the partial taken back out of it is the partial the call was made on.
C9_FailedTryKeepsPartial ==
  [][/\ (last'.op = "try_into_complete" /\ ~last'.ok /\ partial # None)
          => (incErr' = [partial |-> partial] /\ multi' = None)
     /\ (last'.op = "retry" /\ incErr # None) => partial' = incErr.partial
    ]_vars

C9_Witness ==
  /\ last.op = "retry"
  /\ partial # None
  /\ ~is_complete(partial.keychain, partial.unchecked.signature)

\* C10: once the aggregate is complete for a keychain, it is still complete
\* for it after a further add_signature, so try_into_complete returns Ok.
C10_CompletenessMonotone ==
  [][(last'.op = "add_signature" /\ partial # None)
       => \A q \in Quorums :
             LET keychain == [partial.keychain EXCEPT !.quorum = q]
             IN  is_complete(keychain, partial.unchecked.signature)
                   => try_into_complete(partial', keychain).ok]_vars

C10_Witness ==
  /\ last.op = "add_signature"
  /\ ~last.mismatch
  /\ partial # None
  /\ Cardinality(Contributors(partial.unchecked.signature))
       > partial.keychain.quorum

\* The keychain of participant j in the quorum scenario: participants 0, 1
\* and 2, quorum 2.
ScenarioKeychain(j) == [index |-> j, quorum |-> 2]

\* Participant 0 calls PartiallyMultisigned::sign(t, capability_0).
ScenarioSigned(t) == PartiallyMultisigned_sign(t, ScenarioKeychain(0))

\* ... and then add_signature(Signed::sign(capability_1, t1), 1), where t1 is
\* participant 1's payload of content d.
ScenarioAdded(t, d) ==
  add_signature(ScenarioSigned(t),
                Signed_sign(ScenarioKeychain(1), [data |-> d, index |-> 1]),
                1)

\* The PartiallyMultisigned the last try_into_complete was called on: its
\* parts are in the Multisigned on success, it is in the error on failure.
Tried ==
  IF last.ok
  THEN [unchecked |-> multi.unchecked, keychain |-> multi.keychain]
  ELSE incErr.partial

\* C11: in the quorum scenario, after participant 0 signs and absorbs
\* participant 1's signature over the same payload under index 1,
\* try_into_complete returns Ok(Multisigned); if the absorbed Signed is over
\* a different payload, the aggregate still has exactly one contributor and
\* try_into_complete returns Err with the partial.
C11_QuorumScenario ==
  last.op = "try_into_complete" =>
    \A t \in MultiPayloads, d \in Data :
       Tried = ScenarioAdded(t, d) =>
         IF d = hash(t)
         THEN last.quorum = 2 =>
                /\ last.ok
                /\ multi = Multisigned(ScenarioAdded(t, d).unchecked,
                                       ScenarioKeychain(0))
         ELSE /\ Cardinality(Contributors(Tried.unchecked.signature)) = 1
              /\ ~last.ok
              /\ incErr = [partial |-> ScenarioSigned(t)]

C11_Witness ==
  /\ last.op = "try_into_complete"
  /\ last.quorum = 2
  /\ last.ok
  /\ \E t \in MultiPayloads : Tried = ScenarioAdded(t, hash(t))
  /\ Contributors(multi.unchecked.signature) = {0, 1}

\* C12 as stated: once a Multisigned value exists, no operation changes its
\* payload or aggregate, and neither it nor the carrier it exposes becomes
\* a PartiallyMultisigned again.
C12_MultisignedTerminal ==
  [][/\ multi # None
          => (partial' = None /\ (multi' # None => multi' = multi))
     /\ (last.op = "take_unchecked" /\ last.promoted) => partial' = None
    ]_vars

\* C12 as amended: no operation takes a Multisigned value and changes its
\* payload or aggregate or returns a PartiallyMultisigned; the carrier it
\* exposes is the one it held, and that carrier becomes a
\* PartiallyMultisigned again only through check_partial, unchanged, when
\* verify_partial holds for it.
C12_TerminalUpToRecheck ==
  [][/\ multi # None
          => /\ partial' = None
             /\ multi' # None => multi' = multi
             /\ multi' = None => pcarrier' = multi.unchecked
     /\ (last.op = "take_unchecked" /\ partial' # None)
          => /\ last'.op = "check_partial"
             /\ partial' = [unchecked |-> pcarrier,
                            keychain |-> last'.keychain]
             /\ verify_partial(last'.keychain, hash(pcarrier.signable),
                               pcarrier.signature)
    ]_vars

C12_Witness ==
  /\ last.op = "take_unchecked"
  /\ last.promoted
  /\ pcarrier # None
  /\ \E keychain \in Keychains :
        /\ check_partial(pcarrier, keychain).ok
        /\ is_complete(keychain, pcarrier.signature)

\* The threshold of its own keychain is reached by the aggregate of p.
Quorate(p) ==
  Cardinality(Contributors(p.unchecked.signature)) >= p.keychain.quorum

\* C13: a PartiallyMultisigned that keeps absorbing the participants'
\* signatures over its payload, with try_into_complete retried, is
\* eventually promoted to Multisigned; a try_into_complete with its own
\* threshold returns the partial back until quorum-many participants have
\* contributed, and promotes it once they have.
C13_Progress ==
  /\ [](last.op = "try_into_complete" /\ last.quorum = Tried.keychain.quorum
          => /\ last.ok <=> Quorate(Tried)
             /\ ~last.ok => (partial = None /\ multi = None))
  /\ (partial # None) ~> (multi # None)

C13_Witness ==
  /\ last.op = "try_into_complete"
  /\ last.ok
  /\ multi # None
  /\ last.quorum = multi.keychain.quorum
  /\ Cardinality(Contributors(multi.unchecked.signature)) = last.quorum
  /\ verify_partial(multi.keychain, hash(multi.unchecked.signable),
                    multi.unchecked.signature)
\* C14 as stated: every (signature, index) pair that add_signature passes to
\* the aggregation primitive is valid: the signature verifies over the hash
\* of the partial's payload for that index under the partial's keychain.
C14_PassedPairsValid ==
  (last.op = "add_signature" /\ ~last.mismatch) =>
    KeyBox_verify(partial.keychain, hash(partial.unchecked.signable),
                  last.signature, last.index)

\* C15: check_with_index, check and check_partial return Ok exactly when
\* the capability's predicate holds (for the index given, the payload's own
\* index, the aggregate) and Err(SignatureError) otherwise; the Ok value
\* wraps the input carrier unchanged with the capability passed in, the
\* error wraps the input carrier.
C15_ChecksDecided ==
  /\ SingleCheck =>
       LET i == IF last.op = "check" THEN index(last.self.signable)
                ELSE last.index
           verified == KeyBox_verify(last.key_box, hash(last.self.signable),
                                     last.self.signature, i)
       IN  /\ last.ok <=> verified
           /\ verified => /\ signed = [unchecked |-> last.self,
                                        key_box |-> last.key_box]
                          /\ sigErr = None
           /\ ~verified => /\ signed = None
                           /\ sigErr = [unchecked |-> last.self]
  /\ last.op = "check_partial" =>
       LET verified == verify_partial(last.keychain, hash(last.self.signable),
                                      last.self.signature)
       IN  /\ last.ok <=> verified
           /\ verified => /\ partial = [unchecked |-> last.self,
                                         keychain |-> last.keychain]
                          /\ sigErr = None
           /\ ~verified => /\ partial = None
                           /\ sigErr = [unchecked |-> last.self]

C15_Witness ==
  /\ last.op = "check_partial"
  /\ last.ok
  /\ partial # None
  /\ Cardinality(Contributors(partial.unchecked.signature)) > 1

\* C16: add_signature with a Signed whose payload hash equals the hash of
\* the partial's payload, equal payload or not, leaves the aggregate as the
\* aggregate before with the one contribution absorbed: that Signed's
\* signature under the index the caller gave.
C16_AbsorbsGivenPair ==
  [][(last'.op = "add_signature" /\ ~last'.mismatch /\ partial # None)
       => /\ hash(last'.signable) = hash(partial.unchecked.signable)
          /\ partial' =
               [partial EXCEPT !.unchecked.signature =
                  PartialMultisignature_add_signature(
                     partial.unchecked.signature, last'.signature,
                     last'.index)]]_vars

C16_Witness ==
  /\ last.op = "add_signature"
  /\ ~last.mismatch
  /\ partial # None
  /\ last.signable # partial.unchecked.signable
  /\ last.index # index(last.signable)
  /\ partial.unchecked.signature[last.index] = last.signature

\* C17: PartiallyMultisigned::sign(payload, keychain) holds the payload
\* unchanged, the keychain, and an aggregate with exactly one contribution:
\* keychain.sign(hash(payload)) under the keychain's own index.
C17_SignYieldsOneContribution ==
  last.op = "partial_sign" =>
    LET k == last.keychain
        t == last.signable
        sgn == KeyBox_sign(k, hash(t))
    IN  /\ partial # None
        /\ partial.unchecked.signable = t
        /\ partial.keychain = k
        /\ partial.unchecked.signature = from_signature(k, sgn, KeyBox_index(k))
        /\ Contributors(partial.unchecked.signature) = {KeyBox_index(k)}
        /\ partial.unchecked.signature[KeyBox_index(k)] = sgn

C17_Witness ==
  /\ last.op = "partial_sign"
  /\ partial # None
  /\ KeyBox_index(partial.keychain) # index(partial.unchecked.signable)

\* C18: for a carrier that passed check or check_with_index, the Signed's
\* as_signable is the carrier's payload and its into_unchecked is the
\* carrier, payload and signature: check followed by into_unchecked is the
\* identity on carriers.
C18_DowngradeKeepsData ==
  /\ (SingleCheck /\ last.ok) =>
       /\ as_signable(signed) = last.self.signable
       /\ into_unchecked(signed) = last.self
  /\ (last.op = "into_unchecked" /\ last.checked # None) =>
       carrier = last.checked

C18_Witness ==
  /\ last.op = "into_unchecked"
  /\ last.checked # None
  /\ carrier = last.checked
  /\ carrier.signature.signer # index(carrier.signable)
\* C19: across add_signature calls and failed try_into_complete calls the
\* payload and the keychain of a PartiallyMultisigned never change; the
\* aggregate changes only in an add_signature call whose Signed has a
\* matching payload hash.
C19_AggregationFrame ==
  [][/\ (partial # None /\ partial' # None)
          => /\ partial'.unchecked.signable = partial.unchecked.signable
             /\ partial'.keychain = partial.keychain
             /\ partial'.unchecked.signature # partial.unchecked.signature
                  => (last'.op = "add_signature" /\ ~last'.mismatch)
     /\ (partial # None /\ incErr' # None) => incErr'.partial = partial
     /\ (incErr # None /\ partial' # None) => partial' = incErr.partial
    ]_vars

C19_Witness ==
  /\ last.op = "retry"
  /\ partial # None
  /\ Cardinality(Contributors(partial.unchecked.signature)) > 1

====
